---- MODULE Spec2Model ----
(***************************************************************************)
(* Model of globus_sdk/experimental/session_error/session_error.py:        *)
(* GlobusSessionErrorAuthorizationParameters and GlobusSessionError, their *)
(* constructors, from_dict and to_dict, over a heap of Python objects so   *)
(* that identity and aliasing of mappings and instances are visible.       *)
(***************************************************************************)
EXTENDS Integers, Sequences, FiniteSets, TLC

VARIABLES
  heap,     \* the Python heap: dicts, AuthorizationParameters and SessionError instances
  pc,       \* position of the calling program
  call,     \* the last constructor / from_dict call: its operation and arguments
  result,   \* outcome of that call: raised or the instance returned
  ap,       \* the AuthorizationParameters instance the caller holds (None if none)
  gse,      \* the GlobusSessionError instance the caller holds (None if none)
  ret,      \* the last to_dict call: subject, flag and returned mapping
  rt,       \* outcome of from_dict(x.to_dict(include_extra=True))
  held,     \* the mappings the caller holds a reference to, with how it got each
  heap0,    \* the heap as it was right after the subject was constructed
  touched,  \* the roles of the mappings the caller has changed so far
  entries   \* number of optional entries the caller has put into its inputs

vars == <<heap, pc, call, result, ap, gse, ret, rt, held, heap0, touched, entries>>

-----------------------------------------------------------------------------
(* Bounds *)

\* optional entries (non-null keyword fields, keys of caller-built mappings
\* other than a top-level code / authorization_parameters) over one behaviour
MaxEntries == 2

\* changes the caller makes to mappings it holds
MaxMut == 1

-----------------------------------------------------------------------------
(* Python values.  Every value is a record [t, v]: t the type, v a number   *)
(* (the identity of an immutable value, or the address of a heap object).   *)

None      == [t |-> "none", v |-> 0]
Absent    == [t |-> "absent", v |-> 0]   \* "key not in dict", not a value
StrV(i)   == [t |-> "str", v |-> i]
BoolV(i)  == [t |-> "bool", v |-> i]
ListV(i)  == [t |-> "list", v |-> i]
IntV(i)   == [t |-> "int", v |-> i]
DictRef(a) == [t |-> "dict", v |-> a]
APRef(a)  == [t |-> "ap", v |-> a]
GSERef(a) == [t |-> "gse", v |-> a]

\* isinstance(value, type) for the types SUPPORTED_FIELDS names
IsInstance(value, type) == value.t = type

\* The field names, in the order of the class bodies
APFields == << "session_message", "session_required_identities",
               "session_required_policies", "session_required_single_domain",
               "session_required_mfa", "session_required_scopes" >>

\* GlobusSessionErrorAuthorizationParameters.SUPPORTED_FIELDS
AP_SUPPORTED_FIELDS ==
  [ session_message                |-> "str",
    session_required_identities    |-> "list",
    session_required_policies      |-> "list",
    session_required_single_domain |-> "list",
    session_required_mfa           |-> "bool",
    session_required_scopes        |-> "list" ]

\* GlobusSessionError.SUPPORTED_FIELDS
GSE_SUPPORTED_FIELDS ==
  [ code |-> "str", authorization_parameters |-> "ap" ]

APFieldSet  == DOMAIN AP_SUPPORTED_FIELDS
GSEFieldSet == DOMAIN GSE_SUPPORTED_FIELDS

\* Every key a mapping of the model can hold: the recognized names of both
\* classes and one unrecognized key
Keys == APFieldSet \cup GSEFieldSet \cup {"custom_key"}

\* A dict is a function on Keys; Absent marks the keys it does not hold
EmptyDict == [k \in Keys |-> Absent]
DictKeys(d) == {k \in Keys : d[k] # Absent}

\* dict.get(key): the value, or None when the key is missing
Get(d, k) == IF d[k] = Absent THEN None ELSE d[k]

\* dict.update(other)
Update(d, other) == [k \in Keys |-> IF other[k] # Absent THEN other[k] ELSE d[k]]

-----------------------------------------------------------------------------
(* The heap: three stores, an address is an index into its store *)

EmptyHeap == [dicts |-> << >>, aps |-> << >>, gses |-> << >>]

\* A call's outcome: the heap after it, and either the value returned or
\* the ValueError raised
NoError == <<"", "">>
Return(H, value) == [heap |-> H, raised |-> FALSE, err |-> NoError, val |-> value]

\* raise ValueError(msg): msg is <<text, field name>>; what the failed call
\* allocated is unreachable and is dropped from the heap
Raise(H, msg) == [heap |-> H, raised |-> TRUE, err |-> msg, val |-> None]

NewDict(H, d) ==
  Return([H EXCEPT !.dicts = Append(@, d)], DictRef(Len(H.dicts) + 1))

Content(H, ref) == H.dicts[ref.v]

-----------------------------------------------------------------------------
(* GlobusSessionErrorAuthorizationParameters *)

\* "extra or {}": None and an empty mapping are falsy, so a new empty dict
\* is stored; a non-empty mapping is stored itself
ExtraOrEmpty(H, extra) ==
  IF extra.t = "dict" /\ DictKeys(Content(H, extra)) # {}
  THEN Return(H, extra)
  ELSE NewDict(H, EmptyDict)

\* not any(getattr(self, field_name) is not None for field_name in SUPPORTED_FIELDS)
NoSupportedField(kw) == ~ \E f \in APFieldSet : kw[f] # None

\* the fields the type loop rejects, by position in SUPPORTED_FIELDS
WrongType(kw) ==
  { i \in 1..Len(APFields) :
      /\ kw[APFields[i]] # None
      /\ ~ IsInstance(kw[APFields[i]], AP_SUPPORTED_FIELDS[APFields[i]]) }

FirstWrong(kw) ==
  APFields[CHOOSE i \in WrongType(kw) : \A j \in WrongType(kw) : i <= j]

MsgNoField == <<"Must include at least one supported authorization parameter", "">>
MsgType(f) == <<"must be of type", f>>

\* faulty variant: the constructor without its type loop
GlobusSessionErrorAuthorizationParameters_init_Untyped(H, kw, extra) ==
  LET e    == ExtraOrEmpty(H, extra)
      self == [attrs |-> kw, extra_fields |-> e.val]
  IN  IF NoSupportedField(kw) THEN Raise(H, MsgNoField)
      ELSE Return([e.heap EXCEPT !.aps = Append(@, self)],
                  APRef(Len(H.aps) + 1))

\* __init__(self, session_message, ..., session_required_scopes, extra)
GlobusSessionErrorAuthorizationParameters_init(H, kw, extra) ==
  LET e    == ExtraOrEmpty(H, extra)
      self == [attrs |-> kw, extra_fields |-> e.val]
  IN  IF NoSupportedField(kw) THEN Raise(H, MsgNoField)
      ELSE IF WrongType(kw) # {} THEN Raise(H, MsgType(FirstWrong(kw)))
      ELSE Return([e.heap EXCEPT !.aps = Append(@, self)],
                  APRef(Len(H.aps) + 1))

\* faulty variant: the comprehension without its filter
APExtras_Unfiltered(d) == d

\* extras = {k: v for k, v in param_dict.items() if k not in cls.SUPPORTED_FIELDS}
APExtras(d) == [k \in Keys |-> IF k \notin APFieldSet THEN d[k] ELSE Absent]

\* faulty variant: from_dict that hands param_dict itself to the constructor as extra
GlobusSessionErrorAuthorizationParameters_from_dict_Shared(H, param_dict) ==
  LET d      == Content(H, param_dict)
      kwargs == [f \in APFieldSet |-> Get(d, f)]
      r      == GlobusSessionErrorAuthorizationParameters_init(H, kwargs, param_dict)
  IN  IF r.raised THEN Raise(H, r.err) ELSE r

\* from_dict(cls, param_dict)
GlobusSessionErrorAuthorizationParameters_from_dict(H, param_dict) ==
  LET d      == Content(H, param_dict)
      extras == NewDict(H, APExtras(d))
      kwargs == [f \in APFieldSet |-> Get(d, f)]
      r      == GlobusSessionErrorAuthorizationParameters_init(
                  extras.heap, kwargs, extras.val)
  IN  IF r.raised THEN Raise(H, r.err) ELSE r

\* faulty variant: the loop without its "is not None" test
APSetFields_WithNull(o) ==
  [k \in Keys |-> IF k \in APFieldSet THEN o.attrs[k] ELSE Absent]

\* the loop of to_dict: every supported field that is not None
APSetFields(o) ==
  [k \in Keys |-> IF k \in APFieldSet /\ o.attrs[k] # None
                  THEN o.attrs[k] ELSE Absent]

\* faulty variant: to_dict that never merges the extra fields
GlobusSessionErrorAuthorizationParameters_to_dict_NoExtra(H, self, include_extra) ==
  NewDict(H, APSetFields(H.aps[self.v]))

\* to_dict(self, include_extra)
GlobusSessionErrorAuthorizationParameters_to_dict(H, self, include_extra) ==
  LET o == H.aps[self.v]
      session_error_dict ==
        IF include_extra
        THEN Update(APSetFields(o), Content(H, o.extra_fields))
        ELSE APSetFields(o)
  IN  NewDict(H, session_error_dict)

-----------------------------------------------------------------------------
(* GlobusSessionError *)

MsgCode   == <<"Must have a 'code'", "">>
MsgParams == <<"Must have 'authorization_parameters'", "">>

\* faulty variant: the constructor without its test of code
GlobusSessionError_init_NoCode(H, code, authorization_parameters, extra) ==
  LET e == ExtraOrEmpty(H, extra)
      p == IF IsInstance(authorization_parameters, "ap")
           THEN Return(e.heap, authorization_parameters)
           ELSE IF IsInstance(authorization_parameters, "dict")
           THEN GlobusSessionErrorAuthorizationParameters_from_dict(
                  e.heap, authorization_parameters)
           ELSE Raise(e.heap, MsgParams)
      self == [code |-> code, authorization_parameters |-> p.val,
               extra_fields |-> e.val]
  IN  IF p.raised THEN Raise(H, p.err)
      ELSE Return([p.heap EXCEPT !.gses = Append(@, self)],
                  GSERef(Len(H.gses) + 1))

\* faulty variant: the constructor parsing an instance again, through its to_dict
GlobusSessionError_init_Reparsed(H, code, authorization_parameters, extra) ==
  LET e == ExtraOrEmpty(H, extra)
      t == GlobusSessionErrorAuthorizationParameters_to_dict(
             e.heap, authorization_parameters, TRUE)
      p == IF IsInstance(authorization_parameters, "ap")
           THEN GlobusSessionErrorAuthorizationParameters_from_dict(t.heap, t.val)
           ELSE IF IsInstance(authorization_parameters, "dict")
           THEN GlobusSessionErrorAuthorizationParameters_from_dict(
                  e.heap, authorization_parameters)
           ELSE Raise(e.heap, MsgParams)
      self == [code |-> code, authorization_parameters |-> p.val,
               extra_fields |-> e.val]
  IN  IF code = None THEN Raise(H, MsgCode)
      ELSE IF p.raised THEN Raise(H, p.err)
      ELSE Return([p.heap EXCEPT !.gses = Append(@, self)],
                  GSERef(Len(H.gses) + 1))

\* __init__(self, code, authorization_parameters, extra)
GlobusSessionError_init(H, code, authorization_parameters, extra) ==
  LET e == ExtraOrEmpty(H, extra)
      p == IF IsInstance(authorization_parameters, "ap")
           THEN Return(e.heap, authorization_parameters)
           ELSE IF IsInstance(authorization_parameters, "dict")
           THEN GlobusSessionErrorAuthorizationParameters_from_dict(
                  e.heap, authorization_parameters)
           ELSE Raise(e.heap, MsgParams)
      self == [code |-> code, authorization_parameters |-> p.val,
               extra_fields |-> e.val]
  IN  IF code = None THEN Raise(H, MsgCode)
      ELSE IF p.raised THEN Raise(H, p.err)
      ELSE Return([p.heap EXCEPT !.gses = Append(@, self)],
                  GSERef(Len(H.gses) + 1))

\* faulty variant: the comprehension keeping nothing
GSEExtras_Dropped(d) == EmptyDict

\* extras = {k: v for k, v in error_dict.items() if k not in cls.SUPPORTED_FIELDS}
GSEExtras(d) == [k \in Keys |-> IF k \notin GSEFieldSet THEN d[k] ELSE Absent]

\* from_dict(cls, error_dict)
GlobusSessionError_from_dict(H, error_dict) ==
  LET d      == Content(H, error_dict)
      extras == NewDict(H, GSEExtras(d))
      r      == GlobusSessionError_init(extras.heap, Get(d, "code"),
                                  Get(d, "authorization_parameters"), extras.val)
  IN  IF r.raised THEN Raise(H, r.err) ELSE r

\* faulty variant: to_dict that does not pass include_extra down
GlobusSessionError_to_dict_FlagKept(H, self, include_extra) ==
  LET o     == H.gses[self.v]
      inner == GlobusSessionErrorAuthorizationParameters_to_dict(
                 H, o.authorization_parameters, FALSE)
      base  == [EmptyDict EXCEPT !["code"] = o.code,
                                 !["authorization_parameters"] = inner.val]
      session_error_dict ==
        IF include_extra
        THEN Update(base, Content(H, o.extra_fields))
        ELSE base
  IN  NewDict(inner.heap, session_error_dict)

\* to_dict(self, include_extra)
GlobusSessionError_to_dict(H, self, include_extra) ==
  LET o     == H.gses[self.v]
      inner == GlobusSessionErrorAuthorizationParameters_to_dict(
                 H, o.authorization_parameters, include_extra)
      base  == [EmptyDict EXCEPT !["code"] = o.code,
                                 !["authorization_parameters"] = inner.val]
      session_error_dict ==
        IF include_extra
        THEN Update(base, Content(H, o.extra_fields))
        ELSE base
  IN  NewDict(inner.heap, session_error_dict)

\* def to_dict(self, include_extra: bool = False)
Default_include_extra == FALSE

-----------------------------------------------------------------------------
(* The inputs of the calling program *)

\* The values the caller may put under a key: null, a value of the declared
\* type and a value of another type
Cand(k) ==
  CASE k = "session_message"          -> {None, StrV(1), BoolV(1)}
    [] k = "session_required_mfa"     -> {None, BoolV(1), StrV(1)}
    [] k = "code"                     -> {None, StrV(1), IntV(1)}
    [] k = "authorization_parameters" -> {None, StrV(1)}
    [] k = "custom_key"               -> {None, IntV(1)}
    [] OTHER                          -> {None, ListV(1), StrV(1)}

CandAll == UNION {Cand(k) : k \in Keys}

\* the dicts holding at most n keys, all of them in keys
Mappings(keys, n) ==
  UNION { { [k \in Keys |-> IF k \in S THEN g[k] ELSE Absent] :
              g \in {f \in [S -> CandAll] : \A k \in S : f[k] \in Cand(k)} } :
          S \in {T \in SUBSET keys : Cardinality(T) <= n} }

\* keyword arguments of the AuthorizationParameters constructor: at most
\* MaxEntries of the fields of F given, the others left at their default
KwArgs(F) ==
  { [f \in APFieldSet |-> Get(m, f)] :
      m \in {x \in Mappings(F, MaxEntries) :
                \A k \in DictKeys(x) : x[k] # None} }

\* What a calling program draws its inputs from: the keyword arguments kw,
\* the mappings of authorization parameters apm (also the extra mappings of
\* that class), the extra mappings gsem of GlobusSessionError, and the
\* ways args it calls to_dict
Inputs(apKeys, gseKeys, args) ==
  [ kw   |-> KwArgs(apKeys \cap APFieldSet),
    apm  |-> Mappings(apKeys, MaxEntries),
    gsem |-> Mappings(gseKeys, MaxEntries),
    args |-> args ]

\* every recognized key of each class and the unrecognized key
AllInputs ==
  Inputs(APFieldSet \cup {"custom_key"}, GSEFieldSet \cup {"custom_key"},
         {"omitted", "False", "True"})

\* one recognized key of each class and the unrecognized key
FewInputs ==
  Inputs({"session_message", "custom_key"}, {"code", "custom_key"},
         {"False", "True"})

Size(m)  == Cardinality(DictKeys(m))
KwSize(kw) == Cardinality({f \in APFieldSet : kw[f] # None})

\* an argument of the caller: kind says what it is ("none", "absent", "str",
\* "instance", or "mapping": a mapping the caller builds, with content m)
Arg(kind) == [kind |-> kind, m |-> EmptyDict]
Mapping(m) == [kind |-> "mapping", m |-> m]
ArgSize(a) == IF a.kind = "mapping" THEN Size(a.m) ELSE 0

\* an optional extra mapping: None, or a mapping of S
OptMappings(S) == {Arg("none")} \cup {Mapping(m) : m \in S}

\* the caller evaluates the argument, building the mapping if it is one
Build(H, a) ==
  CASE a.kind = "none"     -> Return(H, None)
    [] a.kind = "absent"   -> Return(H, Absent)
    [] a.kind = "str"      -> Return(H, StrV(1))
    [] a.kind = "instance" -> Return(H, ap)
    [] a.kind = "mapping"  -> NewDict(H, a.m)

\* the caller remembers the mappings it built, each under a role
Hold(b, role) ==
  IF b.val.t = "dict" THEN {[ref |-> b.val, role |-> role]} ELSE {}

NoCall == [op |-> "none", kw |-> << >>, code |-> None, params |-> None,
           extra |-> None, arg |-> None, pre |-> EmptyHeap]
NoRet  == [subject |-> None, arg |-> "none", flag |-> FALSE, val |-> None]
NoResult == [raised |-> FALSE, err |-> NoError, val |-> None]

Init ==
  /\ heap = EmptyHeap
  /\ pc = "start"
  /\ call = NoCall
  /\ result = NoResult
  /\ ap = None
  /\ gse = None
  /\ ret = NoRet
  /\ rt = NoResult
  /\ held = {}
  /\ heap0 = EmptyHeap
  /\ touched = << >>
  /\ entries = 0

\* what every constructor / from_dict call leaves behind
Called(c, r, isAP, h, n) ==
  /\ call' = c
  /\ result' = [raised |-> r.raised, err |-> r.err, val |-> r.val]
  /\ heap' = r.heap
  /\ heap0' = r.heap
  /\ pc' = IF r.raised THEN "raised" ELSE "built"
  /\ ap' = IF isAP /\ ~r.raised THEN r.val ELSE ap
  /\ gse' = IF ~isAP /\ ~r.raised THEN r.val ELSE gse
  /\ held' = held \cup h
  /\ entries' = entries + n
  /\ UNCHANGED <<ret, rt, touched>>

\* the mappings of S that still fit in the caller's budget after n entries
Fit(S, n) == {a \in S : entries + n + ArgSize(a) <= MaxEntries}

\* GlobusSessionErrorAuthorizationParameters(**kw, extra=extra)
CallAPInit(I) ==
  /\ pc = "start"
  /\ \E kw \in I.kw :
       \E extra \in Fit(OptMappings(I.apm), KwSize(kw)) :
         LET e == Build(heap, extra)
             r == GlobusSessionErrorAuthorizationParameters_init(e.heap, kw, e.val)
         IN  Called([NoCall EXCEPT !.op = "AP.__init__", !.kw = kw,
                                   !.extra = e.val, !.pre = e.heap],
                    r, TRUE, Hold(e, "extra"), KwSize(kw) + ArgSize(extra))

\* GlobusSessionErrorAuthorizationParameters.from_dict(param_dict)
CallAPFromDict(I) ==
  /\ pc = "start"
  /\ \E param_dict \in I.apm :
       LET d == NewDict(heap, param_dict)
           r == GlobusSessionErrorAuthorizationParameters_from_dict(d.heap, d.val)
       IN  Called([NoCall EXCEPT !.op = "AP.from_dict", !.arg = d.val,
                                 !.pre = d.heap],
                  r, TRUE, Hold(d, "arg"), Size(param_dict))

\* what the caller passes as authorization_parameters: nothing usable (None,
\* a str), a mapping it builds, or the instance it holds
ParamChoices(I) ==
  IF ap # None THEN {Arg("instance")}
  ELSE {Arg("none"), Arg("str")} \cup {Mapping(m) : m \in I.apm}

\* GlobusSessionError(code, authorization_parameters, extra)
CallGSEInit(I) ==
  /\ pc \in {"start", "built"}
  /\ gse = None
  /\ ret = NoRet /\ rt = NoResult /\ touched = << >>
  /\ \E code \in Cand("code"), p \in Fit(ParamChoices(I), 0) :
       \E extra \in Fit(OptMappings(I.gsem), ArgSize(p)) :
         LET b == Build(heap, p)
             e == Build(b.heap, extra)
             r == GlobusSessionError_init(e.heap, code, b.val, e.val)
         IN  Called([NoCall EXCEPT !.op = "GSE.__init__", !.code = code,
                                   !.params = b.val, !.extra = e.val,
                                   !.pre = e.heap],
                    r, FALSE, Hold(b, "params") \cup Hold(e, "extra"),
                    ArgSize(p) + ArgSize(extra))

\* the top-level mapping: code and authorization_parameters present or not,
\* and the unrecognized key
ErrorDict(code, params, custom) ==
  [EmptyDict EXCEPT !["code"] = code,
                    !["authorization_parameters"] = params,
                    !["custom_key"] = custom]

\* GlobusSessionError.from_dict(error_dict)
CallGSEFromDict(I) ==
  /\ pc \in {"start", "built"}
  /\ gse = None
  /\ ret = NoRet /\ rt = NoResult /\ touched = << >>
  /\ \E code \in Cand("code") \cup {Absent},
        custom \in Cand("custom_key") \cup {Absent} :
       LET c == IF custom = Absent THEN 0 ELSE 1 IN
       \E p \in Fit(ParamChoices(I) \cup {Arg("absent")}, c) :
         LET b == Build(heap, p)
             d == NewDict(b.heap, ErrorDict(code, b.val, custom))
             r == GlobusSessionError_from_dict(d.heap, d.val)
         IN  Called([NoCall EXCEPT !.op = "GSE.from_dict", !.arg = d.val,
                                   !.pre = d.heap],
                    r, FALSE, Hold(b, "params") \cup Hold(d, "arg"),
                    ArgSize(p) + c)

\* the instance the caller works on: the one it built last
Subject == IF gse # None THEN gse ELSE ap

ToDictOf(H, x, include_extra) ==
  IF x.t = "gse" THEN GlobusSessionError_to_dict(H, x, include_extra)
  ELSE GlobusSessionErrorAuthorizationParameters_to_dict(H, x, include_extra)

FromDictOf(H, x, d) ==
  IF x.t = "gse" THEN GlobusSessionError_from_dict(H, d)
  ELSE GlobusSessionErrorAuthorizationParameters_from_dict(H, d)

\* the mappings a to_dict call hands to the caller: the one returned and,
\* under authorization_parameters, the nested one
Returned(H, d) ==
  {[ref |-> d, role |-> "returned"]} \cup
  Hold([val |-> Content(H, d)["authorization_parameters"]], "returned")

\* x.to_dict(), x.to_dict(include_extra=False), x.to_dict(include_extra=True)
ToDict(I) ==
  /\ pc = "built"
  /\ ret = NoRet /\ rt = NoResult
  /\ \E arg \in I.args :
       LET flag == IF arg = "omitted" THEN Default_include_extra
                   ELSE arg = "True"
           r    == ToDictOf(heap, Subject, flag)
       IN  /\ heap' = r.heap
           /\ ret' = [subject |-> Subject, arg |-> arg, flag |-> flag,
                      val |-> r.val]
           /\ held' = held \cup Returned(r.heap, r.val)
  /\ UNCHANGED <<pc, call, result, ap, gse, rt, heap0, touched, entries>>

\* type(x).from_dict(x.to_dict(include_extra=True))
RoundTrip ==
  /\ pc = "built"
  /\ ret = NoRet /\ rt = NoResult /\ touched = << >>
  /\ LET d == ToDictOf(heap, Subject, TRUE)
         r == FromDictOf(d.heap, Subject, d.val)
     IN  /\ heap' = r.heap
         /\ rt' = [raised |-> r.raised, err |-> r.err, val |-> r.val]
         /\ held' = held \cup Returned(d.heap, d.val)
  /\ pc' = "done"
  /\ UNCHANGED <<call, result, ap, gse, ret, heap0, touched, entries>>

\* the value a change of the caller stores: one no input holds
Fresh == IntV(2)

\* d[k] = Fresh or del d[k], for a key k the mapping holds or the
\* unrecognized key, on a mapping the caller holds
Mutate ==
  /\ pc = "built"
  /\ rt = NoResult
  /\ Len(touched) < MaxMut
  /\ \E h \in held, v \in {Fresh, Absent} :
     \E k \in DictKeys(Content(heap, h.ref)) \cup {"custom_key"} :
       /\ Content(heap, h.ref)[k] # v
       /\ heap' = [heap EXCEPT !.dicts[h.ref.v][k] = v]
       /\ touched' = Append(touched, h.role)
  /\ ret' = NoRet
  /\ UNCHANGED <<pc, call, result, ap, gse, rt, held, heap0, entries>>

\* a program that constructs, serialises and parses back
Program(I) ==
  \/ CallAPInit(I)
  \/ CallAPFromDict(I)
  \/ CallGSEInit(I)
  \/ CallGSEFromDict(I)
  \/ ToDict(I)
  \/ RoundTrip

Next == Program(AllInputs)

Spec == Init /\ [][Next]_vars

\* a program that also changes the mappings it holds
NextMut == Program(FewInputs) \/ Mutate

SpecMut == Init /\ [][NextMut]_vars

-----------------------------------------------------------------------------
(* Properties *)

\* Python's == on values: mappings by content, everything else by identity
RECURSIVE DeepEq(_, _, _, _)
DeepEq(H1, a, H2, b) ==
  IF a.t = "dict" /\ b.t = "dict"
  THEN \A k \in Keys : DeepEq(H1, Content(H1, a)[k], H2, Content(H2, b)[k])
  ELSE a = b

IsAPCall  == call.op \in {"AP.__init__", "AP.from_dict"}
IsGSECall == call.op \in {"GSE.__init__", "GSE.from_dict"}
FromDictCall == call.op \in {"AP.from_dict", "GSE.from_dict"}

\* the mapping the last from_dict call was given, as it was then
ArgDict == Content(call.pre, call.arg)

\* what the last AuthorizationParameters call gave for field f
Given(f) == IF call.op = "AP.__init__" THEN call.kw[f] ELSE Get(ArgDict, f)

\* what the last GlobusSessionError call gave as code and as parameters
GivenCode   == IF call.op = "GSE.__init__" THEN call.code
               ELSE Get(ArgDict, "code")
GivenParams == IF call.op = "GSE.__init__" THEN call.params
               ELSE Get(ArgDict, "authorization_parameters")

\* the type the documentation declares for each field
DeclaredType(f) ==
  IF f = "session_message" THEN "str"
  ELSE IF f = "session_required_mfa" THEN "bool" ELSE "list"

Acceptable ==
  /\ \E f \in APFieldSet : Given(f) # None
  /\ \A f \in APFieldSet : Given(f) # None => Given(f).t = DeclaredType(f)

\* C1: constructing GlobusSessionErrorAuthorizationParameters, directly or
\* through from_dict, succeeds exactly when some recognized field is non-null
\* and every non-null recognized field has its declared type; otherwise it
\* raises and no instance exists.
C1_ConstructionIffAcceptable ==
  IsAPCall =>
    /\ ~result.raised <=> Acceptable
    /\ result.raised =>
         /\ result.val = None
         /\ result.err \in {MsgNoField} \cup {MsgType(f) : f \in APFieldSet}
         /\ Len(heap0.aps) = Len(call.pre.aps)
    /\ ~result.raised => result.val = APRef(Len(call.pre.aps) + 1)

\* from_dict of a mapping holding only an unrecognized key has raised
C1_Witness ==
  /\ call.op = "AP.from_dict"
  /\ DictKeys(ArgDict) = {"custom_key"}
  /\ result.raised

\* C2: constructing GlobusSessionError, directly or through from_dict, raises
\* when code is null, when authorization_parameters is neither a mapping nor
\* an instance, and with the nested error when it is a mapping that
\* AuthorizationParameters.from_dict rejects; it succeeds in every other case.
C2_SessionErrorFailsExactly ==
  IsGSECall =>
    LET nested == GlobusSessionErrorAuthorizationParameters_from_dict(
                    call.pre, GivenParams)
    IN  IF GivenCode = None
        THEN result.raised /\ result.err = MsgCode
        ELSE IF GivenParams.t \notin {"dict", "ap"}
        THEN result.raised /\ result.err = MsgParams
        ELSE IF GivenParams.t = "dict" /\ nested.raised
        THEN result.raised /\ result.err = nested.err
        ELSE ~result.raised /\ result.val.t = "gse"

\* from_dict with a code and a nested mapping of a wrong type has raised the
\* nested error
C2_Witness ==
  /\ call.op = "GSE.from_dict"
  /\ GivenCode # None
  /\ result.raised
  /\ result.err = MsgType("session_required_mfa")

\* no key of the instance's extra_fields is a recognized field name
APDisjoint(H, x) ==
  DictKeys(Content(H, H.aps[x.v].extra_fields)) \cap APFieldSet = {}
GSEDisjoint(H, x) ==
  DictKeys(Content(H, H.gses[x.v].extra_fields)) \cap GSEFieldSet = {}

\* two instances of one class hold the same recognized fields and the same
\* extra fields
APEquivalent(H, x, y) ==
  /\ H.aps[x.v].attrs = H.aps[y.v].attrs
  /\ DeepEq(H, H.aps[x.v].extra_fields, H, H.aps[y.v].extra_fields)
GSEEquivalent(H, x, y) ==
  /\ H.gses[x.v].code = H.gses[y.v].code
  /\ APEquivalent(H, H.gses[x.v].authorization_parameters,
                     H.gses[y.v].authorization_parameters)
  /\ DeepEq(H, H.gses[x.v].extra_fields, H, H.gses[y.v].extra_fields)
Equivalent(H, x, y) ==
  /\ x.t = y.t
  /\ IF x.t = "gse" THEN GSEEquivalent(H, x, y) ELSE APEquivalent(H, x, y)

RoundTripped == pc = "done" /\ FromDictCall

\* C3 as stated: for every instance built by from_dict,
\* from_dict(x.to_dict(include_extra=True)) succeeds and is equivalent to x.
C3_RoundTripAsStated ==
  RoundTripped => ~rt.raised /\ Equivalent(heap, Subject, rt.val)

\* the authorization parameters of x hold no recognized name among their
\* extra fields
NestedDisjoint(H, x) ==
  x.t = "gse" => APDisjoint(H, H.gses[x.v].authorization_parameters)

\* C3, amended: the round trip succeeds and is equivalent for every instance
\* built by from_dict whose authorization parameters hold no recognized name
\* among their extra fields (always so when they were given as a mapping).
C3_RoundTrip ==
  RoundTripped /\ NestedDisjoint(heap, Subject) =>
    ~rt.raised /\ Equivalent(heap, Subject, rt.val)

\* a GlobusSessionError parsed from a mapping whose authorization parameters
\* hold an extra field has gone through the round trip
C3_Witness ==
  /\ pc = "done"
  /\ call.op = "GSE.from_dict"
  /\ ~rt.raised
  /\ "custom_key" \in DictKeys(Content(heap,
        heap.aps[heap.gses[gse.v].authorization_parameters.v].extra_fields))

\* the mapping the last to_dict call returned
RetDict == Content(heap, ret.val)

\* the recognized fields of an AuthorizationParameters object that are set
NonNull(o) == {f \in APFieldSet : o.attrs[f] # None}

\* C4: AuthorizationParameters.to_dict(include_extra=False) returns exactly
\* the non-null recognized fields with their stored values; with
\* include_extra=True the stored extra fields are added to them; without an
\* argument it behaves as include_extra=False.
C4_ToDictContents ==
  ret.subject.t = "ap" =>
    LET o == heap.aps[ret.subject.v]
        E == Content(heap, o.extra_fields)
    IN  /\ ret.arg = "omitted" => ~ret.flag
        /\ ret.arg = "False" => ~ret.flag
        /\ ret.arg = "True" => ret.flag
        /\ ~ret.flag =>
             /\ DictKeys(RetDict) = NonNull(o)
             /\ \A f \in NonNull(o) : RetDict[f] = o.attrs[f]
        /\ ret.flag =>
             /\ DictKeys(RetDict) = NonNull(o) \cup DictKeys(E)
             /\ \A k \in DictKeys(E) : RetDict[k] = E[k]
             /\ \A f \in NonNull(o) \ DictKeys(E) : RetDict[f] = o.attrs[f]

\* to_dict(include_extra=True) has returned a recognized field and an
\* extra field
C4_Witness ==
  /\ ret.subject.t = "ap"
  /\ ret.arg = "True"
  /\ "custom_key" \in DictKeys(RetDict)
  /\ DictKeys(RetDict) \cap APFieldSet # {}

\* what to_dict of GlobusSessionError promises of the mapping it returned
GSEToDictShape ==
  LET o == heap.gses[ret.subject.v]
      E == Content(heap, o.extra_fields)
      inner == GlobusSessionErrorAuthorizationParameters_to_dict(
                 heap, o.authorization_parameters, ret.flag)
  IN  /\ RetDict["code"] = o.code
      /\ RetDict["authorization_parameters"].t = "dict"
      /\ DeepEq(heap, RetDict["authorization_parameters"],
                inner.heap, inner.val)
      /\ ~ret.flag => DictKeys(RetDict) = GSEFieldSet
      /\ ret.flag => /\ DictKeys(RetDict) = GSEFieldSet \cup DictKeys(E)
                     /\ \A k \in DictKeys(E) \ GSEFieldSet : RetDict[k] = E[k]

\* C5 as stated: for every GlobusSessionError, however constructed, to_dict
\* has code with the stored code and authorization_parameters with the
\* parameters' own to_dict under the same flag; extra fields only with the flag.
C5_ToDictAsStated ==
  ret.subject.t = "gse" => GSEToDictShape

\* C5, amended: the same for every GlobusSessionError whose extra_fields
\* holds neither code nor authorization_parameters.
C5_ToDict ==
  ret.subject.t = "gse" /\ GSEDisjoint(heap, ret.subject) => GSEToDictShape

\* to_dict(include_extra=True) of a GlobusSessionError has returned a
\* top-level extra field beside code and the nested mapping
C5_Witness ==
  /\ ret.subject.t = "gse"
  /\ ret.flag
  /\ "custom_key" \in DictKeys(RetDict)
  /\ RetDict["authorization_parameters"].t = "dict"
  /\ DictKeys(Content(heap, RetDict["authorization_parameters"])) # {}

Serialized == ret.flag /\ FromDictCall /\ ret.subject = result.val

\* C6 as stated: from_dict(d).to_dict(include_extra=True) equals d for
\* every mapping d from_dict accepts.
C6_LosslessAsStated ==
  Serialized => DeepEq(heap, ret.val, call.pre, call.arg)

\* the authorization parameters were given as a mapping in which no
\* recognized key holds null
ParamsPlain ==
  LET m == IF call.op = "AP.from_dict" THEN call.arg
           ELSE ArgDict["authorization_parameters"]
  IN  /\ m.t = "dict"
      /\ \A f \in APFieldSet : Content(call.pre, m)[f] # None

\* C6, amended: from_dict(d).to_dict(include_extra=True) equals d for every
\* accepted mapping d whose authorization parameters are a mapping in which
\* no recognized key holds null.
C6_Lossless ==
  Serialized /\ ParamsPlain => DeepEq(heap, ret.val, call.pre, call.arg)

\* a mapping with a top-level extra field and nested authorization
\* parameters has been parsed and serialized back
C6_Witness ==
  /\ Serialized
  /\ ParamsPlain
  /\ call.op = "GSE.from_dict"
  /\ "custom_key" \in DictKeys(ArgDict)

InstanceGiven ==
  call.op = "GSE.__init__" /\ call.params.t = "ap" /\ call.code # None

\* C7: given an instance as authorization_parameters and a non-null code,
\* the constructor succeeds and stores that very instance, its fields and
\* extra_fields as they were, and builds no other.
C7_InstanceStoredAsIs ==
  InstanceGiven =>
    LET a == call.params.v
        e == call.pre.aps[a].extra_fields.v
    IN  /\ ~result.raised
        /\ heap0.gses[result.val.v].authorization_parameters = call.params
        /\ heap0.aps[a] = call.pre.aps[a]
        /\ heap0.dicts[e] = call.pre.dicts[e]
        /\ Len(heap0.aps) = Len(call.pre.aps)

\* the constructor has stored an instance that holds extra fields
C7_Witness ==
  /\ InstanceGiven
  /\ ~result.raised
  /\ DictKeys(Content(heap, heap.aps[call.params.v].extra_fields)) # {}

\* C8: the code of every constructed GlobusSessionError is a str.
C8_CodeIsStr ==
  \A i \in 1..Len(heap.gses) : IsInstance(heap.gses[i].code, "str")

\* C9 as stated: in every instance, however built, no key of extra_fields
\* is a recognized field name of its class.
C9_DisjointAsStated ==
  /\ \A i \in 1..Len(heap.aps) : APDisjoint(heap, APRef(i))
  /\ \A i \in 1..Len(heap.gses) : GSEDisjoint(heap, GSERef(i))

\* the instances from_dict has built: the result of a from_dict call, the
\* authorization parameters parsed from a mapping, the round trip's result
ParsedAP ==
  (IF call.op = "AP.from_dict" /\ ~result.raised THEN {result.val} ELSE {})
  \cup (IF IsGSECall /\ ~result.raised /\ GivenParams.t = "dict"
        THEN {heap.gses[result.val.v].authorization_parameters} ELSE {})
  \cup (IF pc = "done" /\ ~rt.raised /\ rt.val.t = "ap"
        THEN {rt.val} ELSE {})
  \cup (IF pc = "done" /\ ~rt.raised /\ rt.val.t = "gse"
        THEN {heap.gses[rt.val.v].authorization_parameters} ELSE {})
ParsedGSE ==
  (IF call.op = "GSE.from_dict" /\ ~result.raised THEN {result.val} ELSE {})
  \cup (IF pc = "done" /\ ~rt.raised /\ rt.val.t = "gse"
        THEN {rt.val} ELSE {})

\* C9, amended: in every instance built by from_dict no key of extra_fields
\* is a recognized field name of its class, so to_dict(include_extra=True)
\* of such an instance keeps the value of every recognized key.
C9_Disjoint ==
  /\ \A x \in ParsedAP : APDisjoint(heap, x)
  /\ \A x \in ParsedGSE : GSEDisjoint(heap, x)
  /\ ret.flag /\ ret.subject \in ParsedAP =>
       \A f \in NonNull(heap.aps[ret.subject.v]) :
         RetDict[f] = heap.aps[ret.subject.v].attrs[f]
  /\ ret.flag /\ ret.subject \in ParsedGSE =>
       RetDict["code"] = heap.gses[ret.subject.v].code

\* from_dict has built an instance with extra fields, and to_dict has
\* merged them
C9_Witness ==
  /\ call.op = "AP.from_dict"
  /\ ret.flag
  /\ ret.subject \in ParsedAP
  /\ DictKeys(Content(heap, heap.aps[ret.subject.v].extra_fields)) # {}

\* to_dict(include_extra) now returns what it returned right after
\* construction
SameAsFirst(include_extra) ==
  LET first == ToDictOf(heap0, Subject, include_extra)
      now   == ToDictOf(heap, Subject, include_extra)
  IN  DeepEq(first.heap, first.val, now.heap, now.val)

Constructed == pc \in {"built", "done"}

ExtraTouched == \E i \in 1..Len(touched) : touched[i] = "extra"

====
